---- MODULE Spec2Model ----
(***************************************************************************)
(* Model of the WhisperX transcription pipeline (core/pipeline.py):        *)
(* run_pipeline as a sequential process over an on-disk artifact store,    *)
(* export_transcript / format_time as operators, and clear_cache.          *)
(*                                                                         *)
(* Encoding conventions                                                    *)
(*   - an optional value (a dict key that may be absent, a file that may   *)
(*     not exist, a variable that may be None) is a set with zero or one   *)
(*     element: {} is "absent / None", {v} is "present with value v";      *)
(*   - a Python str is a sequence of one-character strings;                *)
(*   - a JSON file is the sequence of tokens written to it, so that a      *)
(*     truncated or half-written file is a proper prefix of a document.    *)
(***************************************************************************)
EXTENDS Integers, Sequences, FiniteSets, TLC

(***************************************************************************)
(* Bounds of the model                                                     *)
(***************************************************************************)
MaxSegs == 2
MaxRuns == 2
MaxMsgs == 3

(***************************************************************************)
(* Optional values                                                         *)
(***************************************************************************)
Get(opt, default) == IF opt = {} THEN default ELSE CHOOSE v \in opt : TRUE

The(opt) == CHOOSE v \in opt : TRUE

(***************************************************************************)
(* Strings: str.strip() and truthiness                                     *)
(***************************************************************************)
Whitespace == {" "}

RECURSIVE LStrip(_)
LStrip(s) ==
    IF s = <<>> THEN <<>>
    ELSE IF Head(s) \in Whitespace THEN LStrip(Tail(s)) ELSE s

RECURSIVE RStrip(_)
RStrip(s) ==
    IF s = <<>> THEN <<>>
    ELSE IF s[Len(s)] \in Whitespace THEN RStrip(SubSeq(s, 1, Len(s) - 1)) ELSE s

Strip(s) == RStrip(LStrip(s))

(***************************************************************************)
(* Documents.  A segment is a dict with the optional keys start, end,      *)
(* text, words and speaker; only the presence of "words" matters to the    *)
(* pipeline, so it is a flag.  A document is a dict with the optional key  *)
(* "segments".                                                             *)
(***************************************************************************)
Seg(start, end, text, words, speaker) ==
    [start |-> start, end |-> end, text |-> text, words |-> words, speaker |-> speaker]

Doc(segments) == [segments |-> segments]

\* result.get("segments") when the key may be absent: [] stands for None
SegmentsOf(doc) == Get(doc.segments, <<>>)

(***************************************************************************)
(* json.dump / json.load.  The file holds the tokens written so far.       *)
(***************************************************************************)
Tok(kind, seg) == [k |-> kind, seg |-> seg]

SegToks(segs) == [i \in 1..Len(segs) |-> Tok("seg", {segs[i]})]

JsonDumpMissingBrace(doc) ==
    <<Tok("{", {})>>
      \o (IF doc.segments = {} THEN <<>>
          ELSE <<Tok("[", {})>> \o SegToks(The(doc.segments)) \o <<Tok("]", {})>>)

JsonDump(doc) ==
    <<Tok("{", {})>>
      \o (IF doc.segments = {} THEN <<>>
          ELSE <<Tok("[", {})>> \o SegToks(The(doc.segments)) \o <<Tok("]", {})>>)
      \o <<Tok("}", {})>>

\* the tokens between the "[" at position 2 and the "]" at position n - 1
Inner(content) == SubSeq(content, 3, Len(content) - 2)

WellFormed(content) ==
    LET n == Len(content) IN
    /\ n >= 2
    /\ content[1].k = "{"
    /\ content[n].k = "}"
    /\ \/ n = 2
       \/ /\ n >= 4
          /\ content[2].k = "["
          /\ content[n - 1].k = "]"
          /\ \A i \in 3..(n - 2) : content[i].k = "seg"

\* json.load: the parsed document; raises JSONDecodeError unless WellFormed
JsonLoad(content) ==
    IF Len(content) = 2 THEN Doc({})
    ELSE Doc({[i \in 1..(Len(content) - 4) |-> The(Inner(content)[i].seg)]})

(***************************************************************************)
(* format_time and export_transcript                                       *)
(***************************************************************************)
format_time(seconds) ==
    <<seconds \div 3600, (seconds % 3600) \div 60, seconds % 60>>

Placeholder == "SPEAKER_??"

Line(segment) ==
    [start   |-> format_time(Get(segment.start, 0)),
     end     |-> format_time(Get(segment.end, 0)),
     speaker |-> Get(segment.speaker, Placeholder),
     text    |-> Strip(Get(segment.text, <<>>))]

RECURSIVE TranscriptLinesKeepBlank(_)
TranscriptLinesKeepBlank(segments) ==
    IF segments = <<>> THEN <<>>
    ELSE <<Line(Head(segments))>> \o TranscriptLinesKeepBlank(Tail(segments))

RECURSIVE TranscriptLines(_)
TranscriptLines(segments) ==
    IF segments = <<>> THEN <<>>
    ELSE LET text == Strip(Get(Head(segments).text, <<>>)) IN
         (IF text = <<>> THEN <<>> ELSE <<Line(Head(segments))>>)
           \o TranscriptLines(Tail(segments))

(***************************************************************************)
(* Inputs of a run: the input path (stem + suffix, existing or not) and    *)
(* the Options that the pipeline reads (diarize, hf_token).                *)
(***************************************************************************)
Stems == {"clip", "talk"}

Suffixes == {".mp3", ".wav", ".MP4", ".mkv", ".txt"}

\* str.lower() on the suffixes of the model
Lower(suffix) == IF suffix = ".MP4" THEN ".mp4" ELSE suffix

video_formats == {".mp4", ".mkv"}

\* hf_token: None, "", " " or a credential
Tokens == {{}, {<<>>}, {<<" ">>}, {<<"h", "f">>}}

OptionSet == [diarize : BOOLEAN, hf_token : Tokens]

\* options.diarize and options.hf_token and options.hf_token.strip()
DoDiarizeIgnoresToken(opts) == opts.diarize

DoDiarize(opts) ==
    /\ opts.diarize
    /\ opts.hf_token # {}
    /\ The(opts.hf_token) # <<>>
    /\ Strip(The(opts.hf_token)) # <<>>

(***************************************************************************)
(* Contracts of the external collaborators                                 *)
(***************************************************************************)
AsrTexts == {<<" ", "a">>, <<" ">>}

Speakers == {"SPEAKER_00"}

\* model.transcribe: segments with text and times, no words, no speaker
AsrSeg(i, text) == Seg({61 * (i - 1)}, {61 * i}, {text}, FALSE, {})

TranscribeResults ==
    {Doc({[i \in 1..Len(texts) |-> AsrSeg(i, texts[i])]}) :
        texts \in UNION {[1..m -> AsrTexts] : m \in 0..MaxSegs}}

\* whisperx.align(result["segments"], ...): every segment gains "words"
AlignResult(segments) ==
    Doc({[i \in 1..Len(segments) |-> [segments[i] EXCEPT !.words = TRUE]]})

\* whisperx.assign_word_speakers(diarize_segments, result)
AssignWordSpeakersSkipsFirst(doc, spk) ==
    Doc({[i \in 1..Len(SegmentsOf(doc)) |->
            IF i = 1 THEN SegmentsOf(doc)[i]
            ELSE [SegmentsOf(doc)[i] EXCEPT !.speaker = {spk}]]})

AssignWordSpeakers(doc, spk) ==
    Doc({[i \in 1..Len(SegmentsOf(doc)) |->
            [SegmentsOf(doc)[i] EXCEPT !.speaker = {spk}]]})

(***************************************************************************)
(* The resume decisions of run_pipeline                                    *)
(***************************************************************************)
needs_alignment_nonempty(doc) ==
    /\ SegmentsOf(doc) # <<>>
    /\ ~SegmentsOf(doc)[1].words

needs_alignment_any(doc) ==
    \/ SegmentsOf(doc) = <<>>
    \/ \E i \in 1..Len(SegmentsOf(doc)) : ~SegmentsOf(doc)[i].words

needs_alignment_always(doc) == TRUE

needs_alignment_last(doc) ==
    \/ SegmentsOf(doc) = <<>>
    \/ ~SegmentsOf(doc)[Len(SegmentsOf(doc))].words

needs_alignment(doc) ==
    \/ SegmentsOf(doc) = <<>>
    \/ ~SegmentsOf(doc)[1].words

needs_diarization_ignores_speaker(opts, doc) ==
    /\ DoDiarize(opts)
    /\ SegmentsOf(doc) # <<>>

needs_diarization_no_token(opts, doc) ==
    /\ opts.diarize
    /\ SegmentsOf(doc) # <<>>
    /\ SegmentsOf(doc)[1].speaker = {}

needs_diarization_never(opts, doc) == FALSE

needs_diarization(opts, doc) ==
    /\ DoDiarize(opts)
    /\ SegmentsOf(doc) # <<>>
    /\ SegmentsOf(doc)[1].speaker = {}

(***************************************************************************)
(* The artifact store: per run identity (input stem) the output directory, *)
(* its .cache directory with the three checkpoints, the audio.* files and  *)
(* transcript.txt.                                                         *)
(***************************************************************************)
Stages == {"transcribed", "aligned", "diarized"}

AudioExts == {"mp3", "wav"}

EmptyDir ==
    [dir |-> FALSE, cache |-> FALSE, transcribed |-> {}, aligned |-> {},
     diarized |-> {}, audio |-> {}, transcript |-> {}]

\* the cache-load probe of run_pipeline: diarized, then aligned, then transcribed
ProbeLeastComplete(d) ==
    IF d.transcribed # {} THEN "transcribed"
    ELSE IF d.aligned # {} THEN "aligned"
    ELSE IF d.diarized # {} THEN "diarized"
    ELSE "None"

Probe(d) ==
    IF d.diarized # {} THEN "diarized"
    ELSE IF d.aligned # {} THEN "aligned"
    ELSE IF d.transcribed # {} THEN "transcribed"
    ELSE "None"

\* checkpoints found in a run directory before the first run of the model
SeedText == <<"a", " ">>

SeedTranscribed ==
    {Doc({<<Seg({0}, {61}, {<<" ", "a">>}, FALSE, {}), Seg({61}, {75}, {<<" ">>}, FALSE, {})>>})}

\* two aligned segments, the second without text
SeedScenarioB ==
    Doc({<<Seg({0}, {59}, {SeedText}, TRUE, {}), Seg({59}, {3725}, {}, TRUE, {})>>})

\* the first segment aligned and unlabelled, the second neither
SeedFirstAligned ==
    Doc({<<Seg({0}, {59}, {SeedText}, TRUE, {}),
           Seg({59}, {61}, {<<"b">>}, FALSE, {"SPEAKER_01"})>>})

\* the first segment labelled, the second not
SeedFirstLabelled ==
    Doc({<<Seg({0}, {59}, {SeedText}, TRUE, {"SPEAKER_00"}),
           Seg({59}, {61}, {<<"b">>}, TRUE, {})>>})

SeedAligned ==
    {SeedScenarioB, SeedFirstAligned,
     Doc({<<Seg({0}, {59}, {SeedText}, TRUE, {}), Seg({}, {}, {<<"b">>}, FALSE, {})>>}),
     Doc({<<>>})}

SeedDiarized ==
    {Doc({<<Seg({0}, {59}, {SeedText}, TRUE, {"SPEAKER_01"}),
            Seg({59}, {3725}, {<<>>}, TRUE, {"SPEAKER_00"})>>}),
     Doc({<<Seg({0}, {59}, {<<"c">>}, FALSE, {})>>}),
     SeedFirstLabelled,
     Doc({})}

\* next to a diarized checkpoint the aligned one is absent or SeedScenarioB
\* an aligned.json cut short
SeedTruncated == SubSeq(JsonDump(SeedScenarioB), 1, 3)

SeedCaches ==
    {c \in [transcribed : {{}} \cup {{JsonDump(x)} : x \in SeedTranscribed},
            aligned     : {{}, {SeedTruncated}} \cup {{JsonDump(x)} : x \in SeedAligned},
            diarized    : {{}} \cup {{JsonDump(x)} : x \in SeedDiarized}] :
        c.diarized # {} => c.aligned \in {{}, {JsonDump(SeedScenarioB)}}}

SeedDirs ==
    {[dir |-> TRUE, cache |-> TRUE, transcribed |-> c.transcribed,
      aligned |-> c.aligned, diarized |-> c.diarized, audio |-> au,
      transcript |-> {}] : c \in SeedCaches, au \in {{}, {"mp3", "wav"}}}
      \cup {EmptyDir, [EmptyDir EXCEPT !.dir = TRUE]}

\* the directory of another run identity, left by a completed run
OtherDir ==
    [dir |-> TRUE, cache |-> TRUE,
     transcribed |-> {JsonDump(CHOOSE x \in SeedTranscribed : TRUE)},
     aligned |-> {JsonDump(SeedScenarioB)}, diarized |-> {}, audio |-> {"mp3"},
     transcript |-> {TranscriptLines(SegmentsOf(SeedScenarioB))}]

VARIABLES
    root,         \* the output root directory exists
    fs,           \* [Stems -> run directory]
    pc,           \* position of the run in run_pipeline
    input,        \* input_path of the current run: its stem and suffix, and whether
                  \* the file exists
    options,      \* Options of the current run
    result,       \* run_pipeline's `result`: {} is None
    loaded_from,  \* run_pipeline's `loaded_from`
    loaded,       \* the document read at the cache load of the current run, if any
    resumed,      \* the checkpoint it was read from: `loaded_from` right after the load
    outcome,      \* how the last run ended
    calls,        \* collaborator invocations of the current run
    warnings,     \* "[Warning] ..." log events of the current run
    progress,     \* values passed to progress_cb in the current run
    handles,      \* model handles bound in run_pipeline's frame
    logs,         \* log events of the current run
    written,      \* checkpoints the current run has written completely
    prev,         \* how the run before the current one ended
    runs,         \* runs started so far
    cleared       \* the last clear_cache call since the last run, if any: its stem, the
                  \* value returned, and the value returned by the call before it when
                  \* that was on the same stem

\* safe_globals.py, called by concurrent runs
VARIABLES
    registered,   \* the module global `_registered`
    reg_pc,       \* position of each thread in register_safe_globals
    added,        \* calls of torch.serialization.add_safe_globals made so far
    reg_calls     \* calls of register_safe_globals each thread has started

\* process_file of ui_gradio.py: the polling generator and its background thread
VARIABLES
    ui_pc,         \* position of the generator in process_file
    thread,        \* position of the background thread in run_in_thread
    log_queue,     \* `log_queue`
    result_holder, \* `result_holder`: [result, error], {} is None
    ui_logs,       \* the generator's list `logs`
    yields,        \* the tuples the generator has yielded
    sent,          \* every message put on log_queue so far
    emitted,       \* log messages run_pipeline has passed to log_cb
    raised,        \* the exception run_pipeline raised, if it did
    access         \* who has read or written each object of process_file since the
                   \* thread was started

registration == <<registered, reg_pc, added, reg_calls>>

frontend == <<ui_pc, thread, log_queue, result_holder, ui_logs, yields, sent, emitted, raised,
              access>>

vars == <<root, fs, pc, input, options, result, loaded_from, loaded, resumed, outcome, calls,
          warnings, progress, handles, logs, written, prev, runs, cleared, registration,
          frontend>>

\* the threads that may run the pipeline at the same time
Threads == {"t1", "t2", "t3"}

\* the objects created by one call of process_file that its closures can reach
Objects == {"log_queue", "result_holder", "logs"}

NoAccess == [o \in Objects |-> {}]

InitRegistration ==
    /\ registered = FALSE
    /\ reg_pc = [t \in Threads |-> "out"]
    /\ added = 0
    /\ reg_calls = [t \in Threads |-> 0]

InitFrontEnd ==
    /\ ui_pc = "start"
    /\ thread = "unstarted"
    /\ log_queue = <<>>
    /\ result_holder = [result |-> {}, error |-> {}]
    /\ ui_logs = <<>>
    /\ yields = <<>>
    /\ sent = <<>>
    /\ emitted = 0
    /\ raised = {}
    /\ access = NoAccess

NoCalls == [ffmpeg |-> 0, copy |-> 0, transcribe |-> 0, align |-> 0, diarize |-> 0]

\* kind: none, returned, raised or crashed; error: the exception raised; path: the
\* file named by the exception's message, if any; at: where the run was aborted
NoOutcome == [kind |-> "none", error |-> "", path |-> {}, at |-> "", diarized_json |-> FALSE]

\* the outcome of the run before the current one and what it had written
NoPrev == [kind |-> "none", error |-> "", at |-> "", written |-> {}, result |-> {}]

InitRun ==
    /\ pc = "idle"
    /\ input = [stem |-> "clip", suffix |-> ".mp3", exists |-> TRUE]
    /\ options = [diarize |-> FALSE, hf_token |-> {}]
    /\ result = {}
    /\ loaded_from = "None"
    /\ loaded = {}
    /\ resumed = "None"
    /\ outcome = NoOutcome
    /\ calls = NoCalls
    /\ warnings = 0
    /\ progress = <<>>
    /\ handles = {}
    /\ logs = 0
    /\ written = {}
    /\ prev = NoPrev
    /\ runs = 0
    /\ cleared = {}
    /\ InitRegistration
    /\ InitFrontEnd

\* a fresh output root
Init ==
    /\ fs = [s \in Stems |-> EmptyDir]
    /\ root \in BOOLEAN
    /\ InitRun

\* an output root holding a run directory with checkpoints of earlier runs
InitSeeded ==
    /\ fs \in [Stems -> SeedDirs \cup {OtherDir}]
    /\ fs["clip"] \in SeedDirs
    /\ fs["talk"] = OtherDir
    /\ root = TRUE
    /\ InitRun

Idle == pc \in {"idle", "done", "failed"}

\* output_dir = data_dir / input_file.stem: the run directory of an input
output_dir_shared(inp) == "talk"

output_dir(inp) == inp.stem

Dir == fs[output_dir(input)]

\* an exception leaves run_pipeline; the caller sees it
RaiseSwallowed(error) ==
    /\ pc' = "done"
    /\ outcome' = [NoOutcome EXCEPT !.kind = "returned"]

Raise(error) ==
    /\ pc' = "failed"
    /\ outcome' = [NoOutcome EXCEPT !.kind = "raised", !.error = error, !.at = pc]

(***************************************************************************)
(* run_pipeline, lines 111-143: input check, progress 0.0, directories     *)
(***************************************************************************)
\* input_file.exists()
InputFoundAlways(inp) == TRUE

InputFound(inp) == inp.exists

StartRun(stem, suffix, exists, opts) ==
    /\ UNCHANGED <<registration, frontend>>
    /\ Idle
    /\ runs' = runs + 1
    /\ prev' = [kind |-> outcome.kind, error |-> outcome.error, at |-> outcome.at,
                written |-> written, result |-> result]
    /\ input' = [stem |-> stem, suffix |-> suffix, exists |-> exists]
    /\ options' = opts
    /\ result' = {}
    /\ loaded_from' = "None"
    /\ loaded' = {}
    /\ resumed' = "None"
    /\ calls' = NoCalls
    /\ warnings' = 0
    /\ handles' = {}
    /\ written' = {}
    /\ cleared' = {}
    /\ IF ~InputFound(input')
       THEN /\ pc' = "failed"
            /\ outcome' = [NoOutcome EXCEPT !.kind = "raised", !.error = "FileNotFoundError",
                                            !.path = {"input"}, !.at = "start"]
            /\ progress' = <<>>
            /\ logs' = 0
            /\ UNCHANGED <<root, fs>>
       ELSE /\ pc' = "prep"
            /\ outcome' = NoOutcome
            /\ progress' = <<0>>
            /\ logs' = 1
            /\ root' = TRUE
            /\ fs' = [fs EXCEPT ![output_dir(input')].dir = TRUE,
                                ![output_dir(input')].cache = TRUE]

ReportPrepended(values) == progress' = values \o progress

Report(values) == progress' = progress \o values

CalledTwice(name) == calls' = [calls EXCEPT ![name] = @ + 2]

Called(name) == calls' = [calls EXCEPT ![name] = @ + 1]

\* n calls of _log
Log(n) == logs' = logs + n

(***************************************************************************)
(* Stage 1, lines 145-192: prepare audio.mp3 unless it exists              *)
(***************************************************************************)
\* audio_file.exists(): the canonical audio.mp3 of the run directory
AudioExistsNever(d) == FALSE

AudioExists(d) == "mp3" \in d.audio

AudioPrep ==
    /\ UNCHANGED <<registration, frontend>>
    /\ pc = "prep"
    /\ UNCHANGED <<root, input, options, result, loaded_from, loaded, resumed, warnings, handles,
                   written, prev, runs, cleared>>
    /\ IF AudioExists(Dir)
       THEN /\ pc' = "load"
            /\ Report(<<5, 10>>)
            /\ Log(2)
            /\ UNCHANGED <<fs, calls, outcome>>
       ELSE LET suffix == Lower(input.suffix) IN
            IF suffix \in video_formats \cup {".wav"}
            THEN /\ Called("ffmpeg")
                 /\ \E r \in {"ok", "FileNotFoundError", "CalledProcessError"} :
                      IF r = "ok"
                      THEN /\ fs' = [fs EXCEPT ![output_dir(input)].audio = @ \cup {"mp3"}]
                           /\ pc' = "load"
                           /\ Report(<<5, 10>>)
                           /\ Log(3)
                           /\ UNCHANGED outcome
                      ELSE /\ Raise("RuntimeError")
                           /\ Report(<<5>>)
                           /\ Log(2)
                           /\ UNCHANGED fs
            ELSE IF suffix = ".mp3"
            THEN /\ Called("copy")
                 /\ fs' = [fs EXCEPT ![output_dir(input)].audio = @ \cup {"mp3"}]
                 /\ pc' = "load"
                 /\ Report(<<5, 10>>)
                 /\ Log(2)
                 /\ UNCHANGED outcome
            ELSE /\ Raise("ValueError")
                 /\ Report(<<5>>)
                 /\ Log(1)
                 /\ UNCHANGED <<fs, calls>>

(***************************************************************************)
(* Lines 194-217: load the most complete checkpoint, then the diarization  *)
(* settings and the missing-credential warning; with a document loaded     *)
(* stage 2 is skipped (line 222) and progress 0.50 reported (line 259)     *)
(***************************************************************************)
LoadCache ==
    /\ UNCHANGED <<registration, frontend>>
    /\ pc = "load"
    /\ UNCHANGED <<root, fs, input, options, calls, handles, written, prev, runs, cleared>>
    /\ LET label == Probe(Dir)
           warn  == IF options.diarize /\ ~DoDiarize(options) THEN 1 ELSE 0
       IN IF label = "None"
          THEN /\ pc' = "transcribe"
               /\ warnings' = warnings + warn
               /\ Log(warn)
               /\ UNCHANGED <<result, loaded_from, loaded, resumed, outcome, progress>>
          ELSE IF WellFormed(The(Dir[label]))
          THEN /\ result' = {JsonLoad(The(Dir[label]))}
               /\ loaded_from' = label
               /\ loaded' = result'
               /\ resumed' = label
               /\ warnings' = warnings + warn
               /\ Log(1 + warn)
               /\ pc' = "align"
               /\ Report(<<50>>)
               /\ UNCHANGED outcome
          ELSE /\ Raise("JSONDecodeError")
               /\ Log(1)
               /\ UNCHANGED <<result, loaded_from, loaded, resumed, warnings, progress>>

(***************************************************************************)
(* Stage 2, lines 222-249: load_model, transcription, then                 *)
(* open(transcribed.json, "w")                                             *)
(***************************************************************************)
Transcribe ==
    /\ UNCHANGED <<registration, frontend>>
    /\ pc = "transcribe"
    /\ UNCHANGED <<root, input, options, loaded_from, loaded, resumed, warnings, written, prev,
                   runs, cleared>>
    /\ Called("transcribe")
    /\ \/ /\ Raise("CollaboratorFailure")    \* whisperx.load_model raises
          /\ Report(<<15>>)
          /\ Log(3)
          /\ UNCHANGED <<fs, result, handles>>
       \/ /\ Raise("CollaboratorFailure")    \* load_audio or model.transcribe raises
          /\ Report(<<15, 20>>)
          /\ Log(5)
          /\ handles' = handles \cup {"model"}
          /\ UNCHANGED <<fs, result>>
       \/ /\ \E doc \in TranscribeResults : result' = {doc}
          /\ fs' = [fs EXCEPT ![output_dir(input)].transcribed = {<<>>}]
          /\ pc' = "save_transcribed"
          /\ Report(<<15, 20>>)
          /\ Log(7)
          /\ handles' = handles \cup {"model"}
          /\ UNCHANGED outcome

\* lines 250-259: json.dump, close, del model
SaveTranscribed ==
    /\ UNCHANGED <<registration, frontend>>
    /\ pc = "save_transcribed"
    /\ fs' = [fs EXCEPT ![output_dir(input)].transcribed = {JsonDump(The(result))}]
    /\ written' = written \cup {"transcribed"}
    /\ handles' = handles \ {"model"}
    /\ loaded_from' = "transcribed"
    /\ pc' = "align"
    /\ Report(<<50>>)
    /\ UNCHANGED <<root, input, options, result, loaded, resumed, outcome, calls, warnings, logs,
                   prev, runs, cleared>>

(***************************************************************************)
(* Stage 3, lines 261-304: load_align_model, alignment, then               *)
(* open(aligned.json, "w")                                                 *)
(***************************************************************************)
Align ==
    /\ UNCHANGED <<registration, frontend>>
    /\ pc = "align"
    /\ UNCHANGED <<root, input, options, loaded_from, loaded, resumed, warnings, written, prev,
                   runs, cleared>>
    /\ IF needs_alignment(The(result))
       THEN \/ /\ Raise("CollaboratorFailure")    \* whisperx.load_align_model raises
               /\ Called("align")
               /\ Report(<<55>>)
               /\ Log(2)
               /\ UNCHANGED <<fs, result, handles>>
            \/ /\ handles' = handles \cup {"model_a"}
               /\ Report(<<55>>)
               /\ IF The(result).segments = {}
                  THEN /\ Raise("KeyError")       \* result["segments"]
                       /\ Log(2)
                       /\ UNCHANGED <<fs, result, calls>>
                  ELSE /\ Called("align")
                       /\ \/ /\ Raise("CollaboratorFailure")    \* whisperx.align raises
                             /\ Log(2)
                             /\ UNCHANGED <<fs, result>>
                          \/ /\ result' = {AlignResult(The(The(result).segments))}
                             /\ fs' = [fs EXCEPT ![output_dir(input)].aligned = {<<>>}]
                             /\ pc' = "save_aligned"
                             /\ Log(4)
                             /\ UNCHANGED outcome
       ELSE /\ pc' = "diarize"
            /\ Report(<<70>>)
            /\ Log(1)
            /\ UNCHANGED <<fs, result, calls, outcome, handles>>

\* lines 293-304: json.dump, close, del model_a
SaveAligned ==
    /\ UNCHANGED <<registration, frontend>>
    /\ pc = "save_aligned"
    /\ fs' = [fs EXCEPT ![output_dir(input)].aligned = {JsonDump(The(result))}]
    /\ written' = written \cup {"aligned"}
    /\ handles' = handles \ {"model_a"}
    /\ loaded_from' = "aligned"
    /\ pc' = "diarize"
    /\ Report(<<70>>)
    /\ UNCHANGED <<root, input, options, result, loaded, resumed, outcome, calls, warnings, logs,
                   prev, runs, cleared>>

(***************************************************************************)
(* Stage 4, lines 306-337: DiarizationPipeline, diarization, then          *)
(* open(diarized.json, "w")                                                *)
(***************************************************************************)
Diarize ==
    /\ UNCHANGED <<registration, frontend>>
    /\ pc = "diarize"
    /\ UNCHANGED <<root, input, options, loaded_from, loaded, resumed, warnings, written, prev,
                   runs, cleared>>
    /\ IF needs_diarization(options, The(result))
       THEN /\ Called("diarize")
            /\ Report(<<75>>)
            /\ \/ /\ Raise("CollaboratorFailure")    \* DiarizationPipeline(...) raises
                  /\ Log(2)
                  /\ UNCHANGED <<fs, result, handles>>
               \/ /\ Raise("CollaboratorFailure")    \* diarize_model(audio) raises
                  /\ Log(2)
                  /\ handles' = handles \cup {"diarize_model"}
                  /\ UNCHANGED <<fs, result>>
               \/ /\ \E spk \in Speakers : result' = {AssignWordSpeakers(The(result), spk)}
                  /\ fs' = [fs EXCEPT ![output_dir(input)].diarized = {<<>>}]
                  /\ pc' = "save_diarized"
                  /\ Log(4)
                  /\ handles' = handles \cup {"diarize_model"}
                  /\ UNCHANGED outcome
       ELSE /\ pc' = "export"
            /\ Report(<<90>>)
            /\ Log(IF DoDiarize(options) THEN 1 ELSE 0)
            /\ UNCHANGED <<fs, result, calls, outcome, handles>>

\* lines 331-337: json.dump, close; diarize_model stays bound
SaveDiarized ==
    /\ UNCHANGED <<registration, frontend>>
    /\ pc = "save_diarized"
    /\ fs' = [fs EXCEPT ![output_dir(input)].diarized = {JsonDump(The(result))}]
    /\ written' = written \cup {"diarized"}
    /\ loaded_from' = "diarized"
    /\ pc' = "export"
    /\ Report(<<90>>)
    /\ UNCHANGED <<root, input, options, result, loaded, resumed, outcome, calls, warnings, handles,
                   logs, prev, runs, cleared>>

(***************************************************************************)
(* Stage 5, lines 339-354: export_transcript and the returned record; the  *)
(* return ends the frame and with it every binding of a model              *)
(***************************************************************************)
export_transcript(doc) == TranscriptLines(SegmentsOf(doc))

Export ==
    /\ UNCHANGED <<registration, frontend>>
    /\ pc = "export"
    /\ fs' = [fs EXCEPT ![output_dir(input)].transcript = {export_transcript(The(result))}]
    /\ pc' = "done"
    /\ Report(<<100>>)
    /\ Log(4)
    /\ handles' = {}
    /\ outcome' = [NoOutcome EXCEPT !.kind = "returned", !.diarized_json = Dir.diarized # {}]
    /\ UNCHANGED <<root, input, options, result, loaded_from, loaded, resumed, calls, warnings,
                   written, prev, runs, cleared>>

(***************************************************************************)
(* The process running run_pipeline is killed.  A file opened for writing  *)
(* and not yet closed keeps whatever prefix of the document was flushed.   *)
(***************************************************************************)
Writing == [save_transcribed |-> "transcribed", save_aligned |-> "aligned",
            save_diarized |-> "diarized"]

Crash ==
    /\ UNCHANGED <<registration, frontend>>
    /\ ~Idle
    /\ pc' = "idle"
    /\ outcome' = [NoOutcome EXCEPT !.kind = "crashed", !.at = pc]
    /\ IF pc \in DOMAIN Writing
       THEN \E k \in 0..(Len(JsonDump(The(result))) - 1) :
              fs' = [fs EXCEPT ![output_dir(input)][Writing[pc]] =
                                  {SubSeq(JsonDump(The(result)), 1, k)}]
       ELSE UNCHANGED fs
    /\ result' = {}
    /\ loaded_from' = "None"
    /\ loaded' = {}
    /\ resumed' = "None"
    /\ handles' = {}
    /\ UNCHANGED <<root, input, options, calls, warnings, progress, logs, written, prev,
                   runs, cleared>>

(***************************************************************************)
(* clear_cache, lines 357-389, called between runs; "done" and "failed"    *)
(* are the states in which run_pipeline returns or raises                  *)
(***************************************************************************)
clear_cache_result(d) == d.dir /\ (d.cache \/ d.audio # {})

clear_cache_dir_mp3_only(d) ==
    IF ~d.dir THEN d
    ELSE [d EXCEPT !.cache = FALSE, !.transcribed = {}, !.aligned = {},
                   !.diarized = {}, !.audio = @ \ {"mp3"}]

clear_cache_dir(d) ==
    IF ~d.dir THEN d
    ELSE [d EXCEPT !.cache = FALSE, !.transcribed = {}, !.aligned = {},
                   !.diarized = {}, !.audio = {}]

ClearCache(stem) ==
    /\ UNCHANGED <<registration, frontend>>
    /\ Idle
    /\ cleared' = {[stem   |-> stem,
                    ret    |-> clear_cache_result(fs[stem]),
                    before |-> {call.ret : call \in {c \in cleared : c.stem = stem}}]}
    /\ fs' = [fs EXCEPT ![stem] = clear_cache_dir(fs[stem])]
    /\ pc' = "idle"
    /\ UNCHANGED <<root, input, options, result, loaded_from, loaded, resumed, outcome,
                   calls, warnings, progress, handles, logs, written, prev, runs>>

RunStems == {"clip"}

Run ==
    /\ runs < MaxRuns
    /\ \E stem \in RunStems, suffix \in Suffixes, exists \in BOOLEAN, opts \in OptionSet :
         StartRun(stem, suffix, exists, opts)

Clear == \E stem \in Stems : ClearCache(stem)

\* runs, completed, failed or killed, one after the other from a fresh root
Next ==
    \/ Run
    \/ AudioPrep
    \/ LoadCache
    \/ Transcribe
    \/ SaveTranscribed
    \/ Align
    \/ SaveAligned
    \/ Diarize
    \/ SaveDiarized
    \/ Export
    \/ Crash

Spec == Init /\ [][Next]_vars

\* one run over a seeded run directory, clear_cache calls before and after
SeededRun ==
    /\ runs = 0
    /\ \E stem \in RunStems, suffix \in Suffixes, exists \in BOOLEAN, opts \in OptionSet :
         StartRun(stem, suffix, exists, opts)

NextSeeded ==
    \/ SeededRun
    \/ AudioPrep
    \/ LoadCache
    \/ Transcribe
    \/ SaveTranscribed
    \/ Align
    \/ SaveAligned
    \/ Diarize
    \/ SaveDiarized
    \/ Export
    \/ Crash
    \/ Clear

SpecSeeded == InitSeeded /\ [][NextSeeded]_vars

\* a run over a seeded run directory and, when it has completed, a second run
\* with the same input and the same options
Rerun ==
    /\ pc = "done"
    /\ runs = 1
    /\ StartRun(input.stem, input.suffix, input.exists, options)

NextRerun ==
    \/ SeededRun
    \/ AudioPrep
    \/ LoadCache
    \/ Transcribe
    \/ SaveTranscribed
    \/ Align
    \/ SaveAligned
    \/ Diarize
    \/ SaveDiarized
    \/ Export
    \/ Rerun

SpecRerun == InitSeeded /\ [][NextRerun]_vars

\* runs on either run identity from a fresh root, clear_cache calls in between
\* an audio kind, a video kind and an unsupported kind
IdentitySuffixes == {".mp3", ".MP4", ".txt"}

\* the options with no credential or with one
IdentityOptions == {opts \in OptionSet : opts.hf_token \in {{}, {<<"h", "f">>}}}

AnyRun ==
    /\ runs < MaxRuns
    /\ \E stem \in Stems, suffix \in IdentitySuffixes, exists \in BOOLEAN,
          opts \in IdentityOptions :
         StartRun(stem, suffix, exists, opts)

NextIdentity ==
    \/ AnyRun
    \/ AudioPrep
    \/ LoadCache
    \/ Transcribe
    \/ SaveTranscribed
    \/ Align
    \/ SaveAligned
    \/ Diarize
    \/ SaveDiarized
    \/ Export
    \/ Clear

SpecIdentity == Init /\ [][NextIdentity]_vars

(***************************************************************************)
(* register_safe_globals (core/safe_globals.py), called first thing by     *)
(* every run_pipeline; runs started in parallel call it from their own     *)
(* threads.  One step per access to the module global.                     *)
(***************************************************************************)
Pipeline == <<root, fs, pc, input, options, result, loaded_from, loaded, resumed, outcome,
              calls, warnings, progress, handles, logs, written, prev, runs, cleared>>

\* a thread enters register_safe_globals
RegisterCall(t) ==
    /\ reg_pc[t] = "out"
    /\ reg_calls[t] < MaxRuns
    /\ reg_calls' = [reg_calls EXCEPT ![t] = @ + 1]
    /\ reg_pc' = [reg_pc EXCEPT ![t] = "test"]
    /\ UNCHANGED <<registered, added>>

\* `if _registered: return`
RegisterTest(t) ==
    /\ reg_pc[t] = "test"
    /\ reg_pc' = [reg_pc EXCEPT ![t] = IF registered THEN "out" ELSE "add"]
    /\ UNCHANGED <<registered, added, reg_calls>>

\* the imports and torch.serialization.add_safe_globals(safe_globals)
RegisterAdd(t) ==
    /\ reg_pc[t] = "add"
    /\ added' = added + 1
    /\ reg_pc' = [reg_pc EXCEPT ![t] = "set"]
    /\ UNCHANGED <<registered, reg_calls>>

\* `_registered = True`
RegisterSet(t) ==
    /\ reg_pc[t] = "set"
    /\ registered' = TRUE
    /\ reg_pc' = [reg_pc EXCEPT ![t] = "out"]
    /\ UNCHANGED <<added, reg_calls>>

Call == \E t \in Threads : RegisterCall(t) /\ UNCHANGED <<Pipeline, frontend>>

Test == \E t \in Threads : RegisterTest(t) /\ UNCHANGED <<Pipeline, frontend>>

Add == \E t \in Threads : RegisterAdd(t) /\ UNCHANGED <<Pipeline, frontend>>

Set == \E t \in Threads : RegisterSet(t) /\ UNCHANGED <<Pipeline, frontend>>

NextRegister ==
    \/ Call
    \/ Test
    \/ Add
    \/ Set

SpecRegister == Init /\ [][NextRegister]_vars

(***************************************************************************)
(* process_file (ui_gradio.py): a generator that starts run_pipeline on a  *)
(* background thread and polls log_queue while the thread is alive.        *)
(* A message is a sequence of string parts (an f-string is the sequence of *)
(* its literal and interpolated parts).  One step per access to an object  *)
(* the two threads can both reach.                                         *)
(***************************************************************************)
\* lines run_pipeline passes to log_cb, in the order it emits them
LogLines ==
    <<"Starting pipeline for: clip.mp3", "--- Stage 1: Audio Preparation ---",
      "--- Stage 2: Transcription ---", "--- Stage 5: Export Transcript ---",
      "Pipeline completed successfully.">>

\* str(e) of the exceptions run_pipeline can raise: one of its own, and one
\* raised without a message by a collaborator
Errors == {<<"Input file not found: clip.mp3">>, <<>>}

\* the dict run_pipeline returns
PipelineResult == [transcript_txt |-> "data/clip/transcript.txt", output_dir |-> "data/clip"]

\* "\n".join(lines)
RECURSIVE Join(_)
Join(lines) ==
    IF lines = <<>> THEN <<>>
    ELSE IF Len(lines) = 1 THEN lines[1]
    ELSE lines[1] \o <<"\n">> \o Join(Tail(lines))

\* truthiness of an optional str: neither None nor ''
Truthy(opt) == opt # {} /\ The(opt) # <<>>

is_alive_never(th) == FALSE

\* threading.Thread.is_alive(): started and run_in_thread not yet left
is_alive(th) == th \notin {"unstarted", "dead"}

log_queue_empty_always(q) == TRUE

\* log_queue.empty()
log_queue_empty(q) == q = <<>>

get_blocks(q) == FALSE

\* log_queue.get(timeout=0.1) raises queue.Empty when nothing arrived in time
get_raises_Empty(q) == q = <<>>

Touch(who, mode, o) == access' = [access EXCEPT ![o] = @ \cup {<<who, mode>>}]

\* log_queue.put(msg)
Put(msg) ==
    /\ log_queue' = Append(log_queue, msg)
    /\ sent' = Append(sent, msg)
    /\ Touch("thread", "w", "log_queue")

\* lines 81-83 and 100-105: the queue, the holder, the thread and `logs`
Start ==
    /\ ui_pc = "start"
    /\ thread' = "running"
    /\ ui_pc' = "loop"
    /\ UNCHANGED <<log_queue, result_holder, ui_logs, yields, sent, emitted, raised, access>>
    /\ UNCHANGED <<Pipeline, registration>>

\* line 106, left operand: thread.is_alive()
LoopAlive ==
    /\ ui_pc = "loop"
    /\ ui_pc' = IF is_alive(thread) THEN "get" ELSE "empty"
    /\ UNCHANGED <<thread, log_queue, result_holder, ui_logs, yields, sent, emitted, raised,
                   access>>
    /\ UNCHANGED <<Pipeline, registration>>

\* line 106, right operand: not log_queue.empty()
LoopEmpty ==
    /\ ui_pc = "empty"
    /\ ui_pc' = IF ~log_queue_empty(log_queue) THEN "get" ELSE "final"
    /\ Touch("generator", "r", "log_queue")
    /\ UNCHANGED <<thread, log_queue, result_holder, ui_logs, yields, sent, emitted, raised>>
    /\ UNCHANGED <<Pipeline, registration>>

\* lines 108-110: a message arrived within the timeout
GetMessage ==
    /\ ui_pc = "get"
    /\ log_queue # <<>>
    /\ log_queue' = Tail(log_queue)
    /\ ui_logs' = Append(ui_logs, Head(log_queue))
    /\ yields' = Append(yields, [text |-> Join(ui_logs'), file |-> {}, dir |-> ""])
    /\ ui_pc' = "loop"
    /\ access' = [access EXCEPT !["log_queue"] = @ \cup {<<"generator", "w">>},
                                !["logs"] = @ \cup {<<"generator", "w">>}]
    /\ UNCHANGED <<thread, result_holder, sent, emitted, raised>>
    /\ UNCHANGED <<Pipeline, registration>>

\* lines 108, 111-112: queue.Empty
GetTimeout ==
    /\ ui_pc = "get"
    /\ get_raises_Empty(log_queue)
    /\ ui_pc' = "loop"
    /\ Touch("generator", "w", "log_queue")
    /\ UNCHANGED <<thread, log_queue, result_holder, ui_logs, yields, sent, emitted, raised>>
    /\ UNCHANGED <<Pipeline, registration>>

\* lines 114-131
Final ==
    /\ ui_pc = "final"
    /\ ui_pc' = "end"
    /\ IF Truthy(result_holder.error)
       THEN /\ ui_logs' = Append(ui_logs, <<"\n[FAILED] Pipeline error: ">>
                                              \o The(result_holder.error))
            /\ yields' = Append(yields, [text |-> Join(ui_logs'), file |-> {}, dir |-> ""])
       ELSE IF result_holder.result # {}
       THEN LET res == The(result_holder.result) IN
            /\ ui_logs' = ui_logs \o <<<<"\n[SUCCESS] Transcript saved to: ",
                                          res.transcript_txt>>,
                                        <<"Output directory: ", res.output_dir>>>>
            /\ yields' = Append(yields, [text |-> Join(ui_logs'),
                                         file |-> {res.transcript_txt},
                                         dir |-> res.output_dir])
       ELSE /\ ui_logs' = Append(ui_logs, <<"\n[FAILED] No result returned.">>)
            /\ yields' = Append(yields, [text |-> Join(ui_logs'), file |-> {}, dir |-> ""])
    /\ access' = [access EXCEPT !["result_holder"] = @ \cup {<<"generator", "r">>},
                                !["logs"] = @ \cup {<<"generator", "w">>}]
    /\ UNCHANGED <<thread, log_queue, result_holder, sent, emitted, raised>>
    /\ UNCHANGED <<Pipeline, registration>>

\* lines 85-86, 90-94: run_pipeline logs a line through log_callback
ThreadLog ==
    /\ thread = "running"
    /\ emitted < MaxMsgs
    /\ emitted' = emitted + 1
    /\ Put(<<LogLines[emitted + 1]>>)
    /\ UNCHANGED <<ui_pc, thread, result_holder, ui_logs, yields, raised>>
    /\ UNCHANGED <<Pipeline, registration>>

\* lines 90-95: run_pipeline returns, after at least its first line
ThreadReturn ==
    /\ thread = "running"
    /\ emitted >= 1
    /\ result_holder' = [result_holder EXCEPT !.result = {PipelineResult}]
    /\ thread' = "exiting"
    /\ Touch("thread", "w", "result_holder")
    /\ UNCHANGED <<ui_pc, log_queue, ui_logs, yields, sent, emitted, raised>>
    /\ UNCHANGED <<Pipeline, registration>>

\* lines 96-97: run_pipeline raises
ThreadRaise ==
    /\ thread = "running"
    /\ \E e \in Errors :
         /\ raised' = {e}
         /\ result_holder' = [result_holder EXCEPT !.error = {e}]
    /\ thread' = "raised"
    /\ Touch("thread", "w", "result_holder")
    /\ UNCHANGED <<ui_pc, log_queue, ui_logs, yields, sent, emitted>>
    /\ UNCHANGED <<Pipeline, registration>>

\* line 98
ThreadPutError ==
    /\ thread = "raised"
    /\ Put(<<"[ERROR] ">> \o The(raised))
    /\ thread' = "exiting"
    /\ UNCHANGED <<ui_pc, result_holder, ui_logs, yields, emitted, raised>>
    /\ UNCHANGED <<Pipeline, registration>>

\* run_in_thread is left: the thread is no longer alive
ThreadExit ==
    /\ thread = "exiting"
    /\ thread' = "dead"
    /\ UNCHANGED <<ui_pc, log_queue, result_holder, ui_logs, yields, sent, emitted, raised,
                   access>>
    /\ UNCHANGED <<Pipeline, registration>>

NextUI ==
    \/ Start
    \/ LoopAlive
    \/ LoopEmpty
    \/ GetMessage
    \/ GetTimeout
    \/ Final
    \/ ThreadLog
    \/ ThreadReturn
    \/ ThreadRaise
    \/ ThreadPutError
    \/ ThreadExit

SpecUI == Init /\ [][NextUI]_vars

\* the steps of the generator; whoever iterates it keeps asking for the next value
Generator == LoopAlive \/ LoopEmpty \/ GetMessage \/ GetTimeout \/ Final

SpecUIFair == Init /\ [][NextUI]_vars /\ WF_vars(Generator)

(***************************************************************************)
(* Vocabulary of the properties                                            *)
(***************************************************************************)
\* the step is one of the run itself, not the death of its process
RunStep == pc' # "idle"

Last(seq) == seq[Len(seq)]

\* the checkpoints of a run directory that exist
Present(d) == {stage \in Stages : d[stage] # {}}

\* the stages more complete than a stage
MoreComplete(stage) ==
    IF stage = "transcribed" THEN {"aligned", "diarized"}
    ELSE IF stage = "aligned" THEN {"diarized"}
    ELSE {}

\* a credential with at least one character that is not white space
HasCredential(opts) ==
    \E tok \in opts.hf_token : \E i \in 1..Len(tok) : tok[i] \notin Whitespace

\* what a cache load finds in directory d: the document of the most complete
\* checkpoint, {} when there is none
MostComplete(d) ==
    IF d.diarized # {} THEN {JsonLoad(The(d.diarized))}
    ELSE IF d.aligned # {} THEN {JsonLoad(The(d.aligned))}
    ELSE IF d.transcribed # {} THEN {JsonLoad(The(d.transcribed))}
    ELSE {}

(***************************************************************************)
(* C1  The cache load probes diarized, aligned, transcribed in this order  *)
(* and loads the first checkpoint present: a load that succeeds yields the *)
(* diarized document if diarized.json exists, else the aligned one, else   *)
(* the transcribed one; with no checkpoint nothing is loaded and the run   *)
(* goes on to transcription.  A checkpoint that does not parse fails the   *)
(* run and is never skipped in favour of a less complete one.              *)
(***************************************************************************)
C1_MostCompleteWins ==
    [][(pc = "load" /\ RunStep) =>
         /\ Dir.diarized # {} /\ pc' # "failed" =>
              /\ loaded_from' = "diarized"
              /\ result' = {JsonLoad(The(Dir.diarized))}
         /\ Dir.diarized = {} /\ Dir.aligned # {} /\ pc' # "failed" =>
              /\ loaded_from' = "aligned"
              /\ result' = {JsonLoad(The(Dir.aligned))}
         /\ Dir.diarized = {} /\ Dir.aligned = {} /\ Dir.transcribed # {}
              /\ pc' # "failed" =>
              /\ loaded_from' = "transcribed"
              /\ result' = {JsonLoad(The(Dir.transcribed))}
         /\ Present(Dir) = {} =>
              /\ result' = {}
              /\ loaded_from' = "None"
              /\ pc' = "transcribe"
         /\ pc' = "failed" =>
              /\ \E stage \in Present(Dir) :
                    /\ Present(Dir) \cap MoreComplete(stage) = {}
                    /\ ~WellFormed(The(Dir[stage]))
              /\ UNCHANGED <<fs, result>>
      ]_vars

\* a transcribed and a diarized checkpoint with different documents were
\* present and the diarized one has been loaded
C1_Witness ==
    /\ pc = "align"
    /\ loaded_from = "diarized"
    /\ Dir.transcribed # {}
    /\ Dir.transcribed # Dir.diarized
    /\ result = {JsonLoad(The(Dir.diarized))}
    /\ calls = NoCalls

(***************************************************************************)
(* C2  (as stated) Round trip: right after any checkpoint has been written *)
(* the most-complete cache load returns the document just written.         *)
(***************************************************************************)
Saved == pc \in DOMAIN Writing /\ RunStep

C3_AtomicSaves ==
    pc = "load" => \A stage \in Present(Dir) : WellFormed(The(Dir[stage]))

(***************************************************************************)
(* C4  Alignment decision: the alignment stage is run for every document   *)
(* without segments (key missing or list empty) and for every document     *)
(* whose first segment lacks "words"; it is not run for a document whose   *)
(* first segment has "words".                                              *)
(***************************************************************************)
AlignmentRuns == progress' = progress \o <<55>> /\ pc' \in {"save_aligned", "failed"}

AlignmentSkipped ==
    /\ pc' = "diarize"
    /\ UNCHANGED <<fs, result, calls>>
    /\ progress' = progress \o <<70>>

C4_AlignmentDecision ==
    [][(pc = "align" /\ RunStep) =>
         LET doc == The(result) IN
         /\ doc.segments \in {{}, {<<>>}} => AlignmentRuns
         /\ (\E segs \in doc.segments : segs # <<>> /\ segs[1].words) => AlignmentSkipped
         /\ (\E segs \in doc.segments : segs # <<>> /\ ~segs[1].words) => AlignmentRuns
      ]_vars

\* a checkpoint whose first segment lacks "words" was loaded and aligned
C4_Witness ==
    /\ pc = "save_aligned"
    /\ loaded # {}
    /\ ~SegmentsOf(The(loaded))[1].words
    /\ calls.align = 1
    /\ \A i \in 1..Len(SegmentsOf(The(result))) : SegmentsOf(The(result))[i].words

(***************************************************************************)
(* C5  Diarization decision: the diarization stage is executed only if     *)
(* diarize is set, hf_token is present and non-empty after trimming and    *)
(* the first segment of the current document has no "speaker"; and it is   *)
(* executed whenever these hold for a document with at least one segment.  *)
(***************************************************************************)
DiarizationRuns ==
    /\ progress' = progress \o <<75>>
    /\ calls'.diarize = calls.diarize + 1
    /\ pc' \in {"save_diarized", "failed"}

C5_DiarizationDecision ==
    [][(pc = "diarize" /\ RunStep) =>
         LET segs == SegmentsOf(The(result))
             due  == /\ options.diarize
                     /\ HasCredential(options)
                     /\ segs # <<>>
                     /\ segs[1].speaker = {}
         IN /\ due <=> DiarizationRuns
            /\ ~due => pc' = "export" /\ UNCHANGED <<fs, result, calls>>
      ]_vars

\* diarization has run on a document whose first segment had no speaker
C5_Witness ==
    /\ pc = "save_diarized"
    /\ calls.diarize = 1
    /\ options.diarize
    /\ HasCredential(options)
    /\ SegmentsOf(The(result))[1].speaker # {}

(***************************************************************************)
(* C6  (as stated) Graceful degradation: in every run with diarize set and *)
(* no usable credential, whatever the cache holds, the diarization stage   *)
(* is passed without invoking the collaborator and without an error, and   *)
(* at Done neither the document nor any transcript line carries a speaker  *)
(* label.                                                                  *)
(***************************************************************************)
Degraded == options.diarize /\ ~HasCredential(options)

DiarizationPassed ==
    (Degraded /\ pc = "diarize" /\ RunStep) =>
        /\ pc' = "export"
        /\ calls' = calls
        /\ calls.diarize = 0
        /\ UNCHANGED <<fs, result>>

Unlabelled(doc, lines) ==
    /\ \A i \in 1..Len(SegmentsOf(doc)) : SegmentsOf(doc)[i].speaker = {}
    /\ \A k \in 1..Len(lines) : lines[k].speaker = Placeholder

C6_NoSpeakerLabels ==
    [][/\ DiarizationPassed
       /\ (Degraded /\ pc = "export" /\ pc' = "done") =>
             Unlabelled(The(result'), The(fs'[input.stem].transcript))
      ]_vars

(***************************************************************************)
(* C6  (amended) In every run with diarize set and no usable credential    *)
(* the diarization stage is passed without invoking the collaborator and   *)
(* without an error, and the run adds no speaker label: at Done every      *)
(* label of the document and of the transcript is one of the checkpoint    *)
(* loaded, so both are without labels whenever nothing was loaded or the   *)
(* loaded checkpoint had none.                                             *)
(***************************************************************************)
LabelsOf(doc) ==
    {SegmentsOf(doc)[i].speaker : i \in 1..Len(SegmentsOf(doc))} \ {{}}

C6_NoSpeakerLabelsAdded ==
    [][/\ DiarizationPassed
       /\ (Degraded /\ pc = "export" /\ pc' = "done") =>
             LET doc   == The(result')
                 lines == The(fs'[input.stem].transcript) IN
             /\ loaded = {} => Unlabelled(doc, lines)
             /\ \A before \in loaded :
                  /\ LabelsOf(doc) \subseteq LabelsOf(before)
                  /\ \A k \in 1..Len(lines) :
                       \/ lines[k].speaker = Placeholder
                       \/ {lines[k].speaker} \in LabelsOf(before)
                  /\ LabelsOf(before) = {} => Unlabelled(doc, lines)
      ]_vars

\* a run with diarize set and a blank credential has exported a transcript
\* with a line, all lines under the placeholder
C6_Witness ==
    /\ pc = "done"
    /\ options = [diarize |-> TRUE, hf_token |-> {<<" ">>}]
    /\ calls.diarize = 0
    /\ The(Dir.transcript) # <<>>
    /\ Unlabelled(The(result), The(Dir.transcript))

(***************************************************************************)
(* C7  (as stated) A run with diarize set and no usable credential emits   *)
(* exactly one warning over the whole run; any other run emits none.       *)
(***************************************************************************)
Ended == pc \in {"done", "failed"}

C7_ExactlyOneWarning ==
    Ended => warnings = (IF Degraded THEN 1 ELSE 0)

(***************************************************************************)
(* C7  (amended) A run with diarize set and no usable credential emits the *)
(* warning exactly once if it gets past the cache load (so in every run    *)
(* that completes) and not at all if it fails before (input not found,     *)
(* audio preparation failed, checkpoint unreadable); any other run emits   *)
(* no warning.                                                             *)
(***************************************************************************)
PastCacheLoad ==
    \/ pc \in {"transcribe", "save_transcribed", "align", "save_aligned", "diarize",
               "save_diarized", "export", "done"}
    \/ pc = "failed" /\ outcome.error \in {"CollaboratorFailure", "KeyError"}

BeforeCacheLoad ==
    \/ pc \in {"prep", "load"}
    \/ pc = "failed" /\ outcome.error \in {"FileNotFoundError", "RuntimeError",
                                           "ValueError", "JSONDecodeError"}

C7_OneWarningPastCacheLoad ==
    /\ PastCacheLoad => warnings = (IF Degraded THEN 1 ELSE 0)
    /\ BeforeCacheLoad => warnings = 0

\* a completed run with diarize set and an empty credential: one warning
C7_Witness ==
    /\ pc = "done"
    /\ options = [diarize |-> TRUE, hf_token |-> {<<>>}]
    /\ warnings = 1

(***************************************************************************)
(* C8  clear_cache removes the .cache directory with its checkpoints and   *)
(* every audio.* file of the run identity and returns true iff one of them *)
(* existed; a call that follows another one on the same identity with no   *)
(* run in between returns false and changes nothing (true then false when  *)
(* there was something to clear).  transcript.txt and the directories of   *)
(* the other run identities are left as they are.                          *)
(***************************************************************************)
ClearStep == Idle /\ pc' = "idle" /\ cleared' # {}

C8_ClearCache ==
    [][ClearStep =>
         LET call   == The(cleared')
             before == fs[call.stem]
             after  == fs'[call.stem] IN
         /\ call.ret = (before.cache \/ before.audio # {} \/ Present(before) # {})
         /\ ~after.cache /\ Present(after) = {} /\ after.audio = {}
         /\ after.transcript = before.transcript
         /\ after.dir = before.dir
         /\ \A other \in Stems \ {call.stem} : fs'[other] = fs[other]
         /\ (\E c \in cleared : c.stem = call.stem) => ~call.ret /\ fs' = fs
      ]_vars

\* after a run that left checkpoints, audio and a transcript, two calls in a
\* row: true, then false
C8_Witness ==
    /\ runs = 1
    /\ cleared = {[stem |-> "clip", ret |-> FALSE, before |-> {TRUE}]}
    /\ outcome.kind = "returned"
    /\ fs["clip"].transcript # {}
    /\ Present(fs["clip"]) = {} /\ fs["clip"].audio = {}
    /\ fs["talk"] = OtherDir

(***************************************************************************)
(* C9  Export: the transcript has exactly one line per segment whose       *)
(* trimmed text is non-empty, in the order of the segments; a segment with *)
(* missing, empty or blank text gives no line; a line is                   *)
(* [HH:MM:SS - HH:MM:SS] SPEAKER: text with the segment's times, its       *)
(* speaker label or the placeholder SPEAKER_??, and its trimmed text.      *)
(***************************************************************************)
HasText(segment) ==
    \E text \in segment.text : \E i \in 1..Len(text) : text[i] \notin Whitespace

\* t is text without its leading and trailing white space
IsTrimOf(t, text) ==
    /\ t # <<>>
    /\ t[1] \notin Whitespace
    /\ Last(t) \notin Whitespace
    /\ \E a \in 1..Len(text) :
         /\ t = SubSeq(text, a, a + Len(t) - 1)
         /\ \A i \in 1..Len(text) : (i < a \/ i >= a + Len(t)) => text[i] \in Whitespace

IsClock(hms, seconds) ==
    /\ hms[1] * 3600 + hms[2] * 60 + hms[3] = seconds
    /\ hms[2] \in 0..59
    /\ hms[3] \in 0..59

\* the index of the k-th segment with text
Kept(segments, k) ==
    CHOOSE i \in 1..Len(segments) :
        /\ HasText(segments[i])
        /\ Cardinality({j \in 1..i : HasText(segments[j])}) = k

C9_Export ==
    pc = "done" =>
        LET segments == SegmentsOf(The(result))
            lines    == The(Dir.transcript) IN
        /\ Dir.transcript # {}
        /\ Len(lines) = Cardinality({i \in 1..Len(segments) : HasText(segments[i])})
        /\ \A k \in 1..Len(lines) :
             LET segment == segments[Kept(segments, k)] IN
             /\ IsTrimOf(lines[k].text, The(segment.text))
             /\ lines[k].speaker =
                  (IF segment.speaker = {} THEN "SPEAKER_??" ELSE The(segment.speaker))
             /\ IsClock(lines[k].start, IF segment.start = {} THEN 0 ELSE The(segment.start))
             /\ IsClock(lines[k].end, IF segment.end = {} THEN 0 ELSE The(segment.end))

\* two segments, the first with a label and padded text, the second with
\* empty text: one line
C9_Witness ==
    /\ pc = "done"
    /\ Len(SegmentsOf(The(result))) = 2
    /\ SegmentsOf(The(result))[2].text = {<<>>}
    /\ Len(The(Dir.transcript)) = 1
    /\ The(Dir.transcript)[1].speaker = "SPEAKER_01"
    /\ The(Dir.transcript)[1].text = <<"a">>

(***************************************************************************)
(* C10  Fresh run without diarization: a run on an existing input of a     *)
(* supported kind that finds no checkpoint, with diarize off, fails only   *)
(* if a collaborator fails; otherwise it transcribes, then aligns, and at  *)
(* Done transcribed.json, aligned.json and transcript.txt exist while      *)
(* diarized.json does not and the returned diarized_json is None.          *)
(***************************************************************************)
\* the supported kinds, in either case
Supported == {".mp3", ".wav", ".mp4", ".MP4", ".mkv"}

\* the current run found no checkpoint at its cache load
Fresh == calls.transcribe = 1 \/ pc = "transcribe"

C10_FreshRunNoDiarization ==
    ~options.diarize =>
        /\ (pc = "failed" /\ input.suffix \in Supported
              /\ outcome.error \notin {"FileNotFoundError", "JSONDecodeError"}) =>
             /\ outcome.error \in {"RuntimeError", "CollaboratorFailure"}
             /\ outcome.error = "RuntimeError" <=> calls.ffmpeg = 1 /\ calls.transcribe = 0
        /\ (pc = "done" /\ Fresh) =>
             /\ calls.transcribe = 1 /\ calls.align = 1 /\ calls.diarize = 0
             /\ \E k \in 1..Len(progress) : progress[k] = 20 /\ progress[k + 1] = 50
                                            /\ progress[k + 2] = 55
             /\ Dir.transcribed # {} /\ WellFormed(The(Dir.transcribed))
             /\ Dir.aligned = {JsonDump(The(result))}
             /\ Dir.transcript # {}
             /\ Dir.diarized = {}
             /\ ~outcome.diarized_json

\* a first run on clip with diarize off has completed with a transcript
C10_Witness ==
    /\ pc = "done"
    /\ runs = 1
    /\ ~options.diarize
    /\ calls = [NoCalls EXCEPT !.copy = 1, !.transcribe = 1, !.align = 1]
    /\ The(Dir.transcript) # <<>>
    /\ Dir.diarized = {}

(***************************************************************************)
(* C11  Resume from an aligned checkpoint: with aligned.json present, no   *)
(* diarized.json, a first segment that has words and no speaker, and       *)
(* diarization requested with a credential, the run loads the aligned      *)
(* document, invokes neither the transcription nor the alignment           *)
(* collaborator, invokes the diarization collaborator exactly once (the    *)
(* run fails only if that collaborator fails), writes diarized.json and    *)
(* exports a transcript with as many lines as the document has segments    *)
(* with text that is not blank.                                            *)
(***************************************************************************)
\* the first segment has words and no speaker
AlignedUnlabelled(doc) ==
    /\ SegmentsOf(doc) # <<>>
    /\ SegmentsOf(doc)[1].words
    /\ SegmentsOf(doc)[1].speaker = {}

\* aligned.json is the most complete checkpoint of directory d and parses to
\* such a document
AlignedOnly(d) ==
    /\ d.diarized = {}
    /\ d.aligned # {}
    /\ WellFormed(The(d.aligned))
    /\ AlignedUnlabelled(JsonLoad(The(d.aligned)))

C11_ResumeFromAligned ==
    [][/\ (pc = "load" /\ RunStep /\ AlignedOnly(Dir)) =>
             /\ result' = {JsonLoad(The(Dir.aligned))}
             /\ loaded' = result'
             /\ pc' = "align"
       /\ \A doc \in loaded :
            (AlignedUnlabelled(doc) /\ HasCredential(options) /\ options.diarize
               /\ RunStep /\ pc \notin {"done", "failed"}) =>
              /\ calls'.transcribe = 0
              /\ calls'.align = 0
              /\ pc = "align" => pc' = "diarize" /\ result' = result
              /\ pc = "diarize" =>
                   /\ calls.diarize = 0 /\ calls'.diarize = 1
                   /\ pc' \in {"save_diarized", "failed"}
                   /\ pc' = "failed" => outcome'.error = "CollaboratorFailure"
              /\ pc = "save_diarized" =>
                   /\ pc' = "export"
                   /\ fs'[input.stem].diarized = {JsonDump(The(result))}
              /\ pc = "export" =>
                   /\ pc' = "done"
                   /\ calls'.diarize = 1
                   /\ outcome'.diarized_json
                   /\ fs'[input.stem].diarized = {JsonDump(The(result))}
                   /\ Len(The(fs'[input.stem].transcript)) =
                        Cardinality({i \in 1..Len(SegmentsOf(doc)) :
                                        HasText(SegmentsOf(doc)[i])})
      ]_vars

\* the run resumed from the aligned document of two segments, one of them
\* without text: diarization only, one line
C11_Witness ==
    /\ pc = "done"
    /\ loaded = {SeedScenarioB}
    /\ options = [diarize |-> TRUE, hf_token |-> {<<"h", "f">>}]
    /\ calls.transcribe = 0 /\ calls.align = 0 /\ calls.diarize = 1
    /\ Dir.diarized # {}
    /\ Len(The(Dir.transcript)) = 1

(***************************************************************************)
(* C12  Missing input: a run whose input path does not exist fails at once *)
(* with the input-not-found error naming the path, before any side effect: *)
(* no output root, run directory or .cache directory is created, no file   *)
(* is written, no collaborator is invoked, no progress value and no log    *)
(* event is emitted, and no later step of the run follows.                 *)
(***************************************************************************)
\* the step starts a run
Starts == runs' = runs + 1

C12_MissingInput ==
    [][/\ (Starts /\ ~input'.exists) =>
             /\ pc' = "failed"
             /\ outcome'.kind = "raised"
             /\ outcome'.error = "FileNotFoundError"
             /\ outcome'.path = {"input"}
             /\ root' = root
             /\ fs' = fs
             /\ calls' = NoCalls
             /\ progress' = <<>>
             /\ logs' = 0
             /\ warnings' = 0
       /\ (runs > 0 /\ ~input.exists /\ ~Starts) =>
             /\ pc \in {"failed", "idle"}
             /\ UNCHANGED <<calls, progress, logs, warnings, outcome>>
      ]_vars

\* the first run, on a missing input, has failed and there is still no
\* output root
C12_Witness ==
    /\ pc = "failed"
    /\ runs = 1
    /\ ~input.exists
    /\ outcome.error = "FileNotFoundError"
    /\ ~root
    /\ fs = [s \in Stems |-> EmptyDir]

(***************************************************************************)
(* C13  Progress: in every run the values passed to the progress sink, in  *)
(* hundredths, are non-decreasing and lie between 0 and 100; 100 is        *)
(* reported only by a run that completes, which reports it last, once.     *)
(***************************************************************************)
C13_Progress ==
    /\ \A i \in 1..Len(progress) : progress[i] \in 0..100
    /\ \A i, j \in 1..Len(progress) : i < j => progress[i] <= progress[j]
    /\ \A i \in 1..Len(progress) :
         progress[i] = 100 => /\ i = Len(progress)
                              /\ outcome.kind = "returned"
    /\ pc = "done" => Last(progress) = 100

\* a run through every stage has reported every milestone
C13_Witness ==
    /\ pc = "done"
    /\ progress = <<0, 5, 10, 15, 20, 50, 55, 70, 75, 90, 100>>

(***************************************************************************)
(* C14  Stage ordering and persist-before-advance: within a run the stages *)
(* run one after the other in the order AudioPrep, Transcribe, Align,      *)
(* Diarize, Export, each at most once; and when Transcribe, Align or       *)
(* Diarize has run, its checkpoint is on disk, complete and equal to the   *)
(* document in hand, when the next stage starts.                           *)
(***************************************************************************)
\* the positions of run_pipeline in program order
Rank ==
    [idle |-> 0, start |-> 0, prep |-> 1, load |-> 2, transcribe |-> 3, save_transcribed |-> 4,
     align |-> 5, save_aligned |-> 6, diarize |-> 7, save_diarized |-> 8, export |-> 9,
     done |-> 10, failed |-> 10]

\* the stage a position belongs to; the cache load is between stages 1 and 2
StageOf ==
    [prep |-> 1, load |-> 1, transcribe |-> 2, save_transcribed |-> 2, align |-> 3,
     save_aligned |-> 3, diarize |-> 4, save_diarized |-> 4, export |-> 5]

Persisted(stage) ==
    /\ stage \in written
    /\ Dir[stage] = {JsonDump(The(result))}

C14_StageOrder ==
    [][/\ (~Idle /\ RunStep) =>
             /\ Rank[pc'] > Rank[pc]
             /\ pc' \in DOMAIN StageOf => StageOf[pc'] >= StageOf[pc]
             /\ \A name \in DOMAIN calls : calls'[name] <= 1
       /\ (pc = "align" /\ calls.transcribe = 1) => Persisted("transcribed")
       /\ (pc = "diarize" /\ calls.align = 1) => Persisted("aligned")
       /\ (pc = "export" /\ calls.diarize = 1) => Persisted("diarized")
      ]_vars

\* the export stage is about to start after all three model stages ran
C14_Witness ==
    /\ pc = "export"
    /\ calls.transcribe = 1 /\ calls.align = 1 /\ calls.diarize = 1
    /\ written = Stages
    /\ Persisted("diarized")

(***************************************************************************)
(* C15  Abort without retry: when a stage fails (conversion, or the        *)
(* collaborator of transcription, alignment or diarization) the run ends   *)
(* in that stage with the failure raised to the caller: no later stage is  *)
(* started, no transcript is exported, and no collaborator has been        *)
(* invoked more than once.                                                 *)
(***************************************************************************)
\* where a step of run_pipeline leads when nothing fails
Forward ==
    [prep |-> {"load"}, load |-> {"transcribe", "align"},
     transcribe |-> {"save_transcribed"}, save_transcribed |-> {"align"},
     align |-> {"save_aligned", "diarize"}, save_aligned |-> {"diarize"},
     diarize |-> {"save_diarized", "export"}, save_diarized |-> {"export"},
     export |-> {"done"}]

\* a step of the run that does not lead on: the stage at pc fails
Fails == ~Idle /\ RunStep /\ pc' \notin Forward[pc]

C15_AbortWithoutRetry ==
    [][/\ Fails =>
             /\ pc' = "failed"
             /\ outcome'.kind = "raised"
             /\ outcome'.error # ""
             /\ outcome'.at = pc
             /\ fs'[input.stem].transcript = fs[input.stem].transcript
             /\ \A name \in DOMAIN calls : calls'[name] <= 1
       /\ pc = "failed" =>
             /\ Dir.transcript = {}
             /\ outcome.kind = "raised"
             /\ Starts \/ (pc' = "idle" /\ UNCHANGED <<calls, outcome, progress, logs>>)
      ]_vars

\* the alignment collaborator failed after transcribed.json was written
C15_Witness ==
    /\ pc = "failed"
    /\ outcome.at = "align"
    /\ outcome.error = "CollaboratorFailure"
    /\ calls.transcribe = 1 /\ calls.align = 1
    /\ written = {"transcribed"}
    /\ Dir.transcript = {}
    /\ Dir.aligned = {}

(***************************************************************************)
(* C16  (as stated) Checkpoints survive an aborted run and drive resume:   *)
(* a run that fails, or is killed between two stages, leaves every         *)
(* checkpoint on disk as it was; the next run on the same identity         *)
(* re-executes no stage whose checkpoint the aborted run had persisted and *)
(* re-executes the stage that had not persisted.                           *)
(***************************************************************************)
Checkpoints(files) == [s \in Stems |-> [stage \in Stages |-> files[s][stage]]]

\* the step ends the run by a failure or by a kill between two stages
Aborts ==
    /\ ~Idle
    /\ pc \notin DOMAIN Writing
    /\ pc' \in {"failed", "idle"}

\* the run before the current one ended so
AfterAbort ==
    /\ runs > 1
    /\ prev.kind \in {"raised", "crashed"}
    /\ prev.at \notin DOMAIN Writing

\* the current run, running or ended, has got as far as position p
Reached(p) ==
    /\ pc # "idle"
    /\ Rank[IF pc = "failed" THEN outcome.at ELSE pc] >= Rank[p]

CheckpointsSurvive == Aborts => Checkpoints(fs') = Checkpoints(fs)

\* the stage in which the run before was aborted runs again
ReExecutesUnpersisted ==
    /\ (prev.at = "transcribe" /\ Reached("save_transcribed")) => calls.transcribe = 1
    /\ (prev.at = "align" /\ prev.kind = "raised" /\ Reached("save_aligned")) =>
          calls.align = 1
    /\ (prev.at = "diarize" /\ prev.kind = "raised" /\ options.diarize
          /\ HasCredential(options) /\ Reached("save_diarized")) => calls.diarize = 1

C16_ResumeAfterAbort ==
    [][/\ CheckpointsSurvive
       /\ AfterAbort =>
            /\ "transcribed" \in prev.written => calls.transcribe = 0
            /\ "aligned" \in prev.written => calls.align = 0
            /\ "diarized" \in prev.written => calls.diarize = 0
            /\ ReExecutesUnpersisted
      ]_vars

(***************************************************************************)
(* C16  (amended) As above, except that alignment is executed again when   *)
(* the document persisted has no segment; the failed diarization is        *)
(* executed again by a next run that asks for it with a credential.        *)
(***************************************************************************)
C16_ResumeAfterAbortUnlessEmpty ==
    [][/\ CheckpointsSurvive
       /\ AfterAbort =>
            /\ "transcribed" \in prev.written => calls.transcribe = 0
            /\ "aligned" \in prev.written =>
                 \A doc \in loaded :
                   /\ SegmentsOf(doc) # <<>> => calls.align = 0
                   /\ (SegmentsOf(doc) = <<>> /\ Reached("save_aligned")) => calls.align = 1
            /\ "diarized" \in prev.written => calls.diarize = 0
            /\ ReExecutesUnpersisted
      ]_vars

\* alignment failed after transcribed.json was written; the next run skipped
\* transcription, aligned and completed
C16_Witness ==
    /\ runs = 2
    /\ prev.kind = "raised" /\ prev.error = "CollaboratorFailure" /\ prev.at = "align"
    /\ prev.written = {"transcribed"}
    /\ pc = "done"
    /\ calls.transcribe = 0
    /\ calls.align = 1
    /\ loaded_from # "transcribed"

(***************************************************************************)
(* C17  Resource release: the model handle a stage acquires (model in      *)
(* Transcribe, model_a in Align, diarize_model in Diarize) is released     *)
(* before the run leaves that stage, whether the stage completes or fails; *)
(* no run is at Done or Failed with a model handle still bound.            *)
(***************************************************************************)
C17_HandlesReleased ==
    /\ pc \in {"align", "save_aligned"} => "model" \notin handles
    /\ pc \in {"diarize", "save_diarized"} => handles \subseteq {"diarize_model"}
    /\ pc \in {"export", "done", "failed"} => handles = {}

(***************************************************************************)
(* C18  Unsupported input kind: a run on an existing input whose suffix is *)
(* none of .mp3, .wav, .mp4, .mkv ends in a fatal error, whatever the run  *)
(* directory holds: it never gets past audio preparation, invokes no       *)
(* collaborator and exports no transcript.                                 *)
(***************************************************************************)
Unsupported == Lower(input.suffix) \notin {".mp3", ".wav", ".mp4", ".mkv"}

C18_UnsupportedIsFatal ==
    (runs > 0 /\ input.exists /\ Unsupported /\ pc # "idle") =>
        /\ pc \in {"prep", "failed"}
        /\ calls = NoCalls
        /\ pc = "failed" => outcome.error = "ValueError"

(***************************************************************************)
(* C19  Corrupt checkpoint: when the checkpoint selected by the probe does *)
(* not parse, the run ends in an error raised to the caller; no model      *)
(* stage runs, nothing is loaded from a less complete checkpoint, no file  *)
(* is written, and the error names the path of the offending checkpoint.   *)
(***************************************************************************)
\* the cache load is about to read a checkpoint that does not parse
LoadsCorrupt ==
    /\ pc = "load"
    /\ RunStep
    /\ Probe(Dir) # "None"
    /\ ~WellFormed(The(Dir[Probe(Dir)]))

CorruptIsFatal ==
    LoadsCorrupt =>
        /\ pc' = "failed"
        /\ outcome'.kind = "raised"
        /\ outcome'.error = "JSONDecodeError"
        /\ result' = {} /\ loaded' = {}
        /\ fs' = fs
        /\ calls' = calls
        /\ calls.transcribe = 0 /\ calls.align = 0 /\ calls.diarize = 0

C19_CorruptCheckpoint ==
    [][/\ CorruptIsFatal
       /\ LoadsCorrupt => outcome'.path = {Probe(Dir)}
      ]_vars

(***************************************************************************)
(* C20  Run identity: the namespace of a run (run directory, checkpoints,  *)
(* canonical audio, transcript) is determined by the output root and the   *)
(* base name of the input alone.  Every step of a run, whatever the suffix *)
(* and the options, reads its audio and its checkpoint from the namespace  *)
(* of the input's base name and writes nothing outside it; clear_cache     *)
(* touches the namespace of its input's base name only.                    *)
(***************************************************************************)
Others(stem) == Stems \ {stem}

\* the step is a clear_cache call
Clears == cleared' # {} /\ cleared' # cleared

C20_RunIdentity ==
    [][/\ (Starts \/ ~Idle) =>
             \A s \in Others(input'.stem) : fs'[s] = fs[s]
       /\ Starts /\ pc' = "prep" =>
             /\ fs'[input'.stem].dir /\ fs'[input'.stem].cache
       /\ (pc = "prep" /\ RunStep) =>
             ("mp3" \in fs[input.stem].audio <=>
                 (pc' = "load" /\ calls' = calls /\ fs' = fs))
       /\ (pc = "load" /\ RunStep /\ pc' # "failed") =>
             /\ result' = MostComplete(fs[input.stem])
             /\ Present(fs[input.stem]) = {} <=> pc' = "transcribe"
       /\ (pc \in DOMAIN Writing /\ RunStep) =>
             fs'[input.stem][Writing[pc]] = {JsonDump(The(result))}
       /\ (pc = "export" /\ RunStep) => fs'[input.stem].transcript # {}
       /\ Clears =>
             \A call \in cleared' :
               /\ \A s \in Others(call.stem) : fs'[s] = fs[s]
               /\ fs'[call.stem] = clear_cache_dir(fs[call.stem])
      ]_vars

\* a run on talk has completed from scratch next to the namespace that a
\* completed run on clip left
C20_Witness ==
    /\ runs = 2
    /\ pc = "done"
    /\ input.stem = "talk"
    /\ calls.transcribe = 1
    /\ fs["talk"].transcript # {}
    /\ fs["clip"].transcript # {}
    /\ fs["clip"].aligned # {}

(***************************************************************************)
(* C23  First-segment sampling: the resume decisions look at the first     *)
(* segment only.  A document whose first segment has words is not aligned  *)
(* even if a later segment lacks them, and goes on unchanged to the        *)
(* diarization decision and, unless diarized, to the export, which renders *)
(* every segment of it; for a document with segments and a run that asks   *)
(* for diarization with a credential, diarization runs iff the first       *)
(* segment has no speaker, whatever the later segments carry.              *)
(***************************************************************************)
\* the first segment has words, a later one does not
MixedWords(doc) ==
    /\ SegmentsOf(doc) # <<>>
    /\ SegmentsOf(doc)[1].words
    /\ \E i \in 2..Len(SegmentsOf(doc)) : ~SegmentsOf(doc)[i].words

\* the first segment and a later one differ in having a speaker
MixedSpeakers(doc) ==
    /\ SegmentsOf(doc) # <<>>
    /\ \E i \in 2..Len(SegmentsOf(doc)) :
         (SegmentsOf(doc)[i].speaker = {}) # (SegmentsOf(doc)[1].speaker = {})

C23_FirstSegmentSampling ==
    [][\A doc \in result :
         /\ (pc = "align" /\ RunStep /\ MixedWords(doc)) => AlignmentSkipped
         /\ (pc = "diarize" /\ RunStep /\ MixedSpeakers(doc)) =>
              IF options.diarize /\ HasCredential(options) /\ SegmentsOf(doc)[1].speaker = {}
              THEN DiarizationRuns
              ELSE pc' = "export" /\ UNCHANGED <<fs, result, calls>>
         /\ (pc = "export" /\ RunStep /\ MixedWords(doc)) =>
              /\ calls.align = 0
              /\ calls.diarize = 0 => loaded = result
              /\ fs'[input.stem].transcript = {export_transcript(doc)}
              /\ result' = result
      ]_vars

\* the document with an aligned first and an unaligned second segment was
\* loaded, not aligned, and exported with both its segments
C23_Witness ==
    /\ pc = "done"
    /\ loaded = {SeedFirstAligned}
    /\ result = loaded
    /\ calls.align = 0
    /\ Len(The(Dir.transcript)) = 2

(***************************************************************************)
(* C24  AudioPrep idempotence: when audio.mp3 exists at the start of a run *)
(* the conversion collaborator is not invoked, no copy is made and the     *)
(* run directory is left as it is; a conversion or copy takes place only   *)
(* when audio.mp3 is absent and, when it succeeds, creates it; with no     *)
(* clear in between the audio stays, so that over any sequence of runs it  *)
(* is produced at most once and a second preparation changes nothing.      *)
(***************************************************************************)
\* the step invokes the conversion collaborator or copies the input
Converts == calls'.ffmpeg + calls'.copy > calls.ffmpeg + calls.copy

C24_AudioPrepIdempotent ==
    [][/\ (pc = "prep" /\ RunStep /\ "mp3" \in fs[input.stem].audio) =>
             /\ ~Converts
             /\ fs' = fs
             /\ pc' = "load"
       /\ Converts =>
             /\ pc = "prep"
             /\ "mp3" \notin fs[input.stem].audio
             /\ calls.ffmpeg + calls.copy = 0
             /\ calls'.ffmpeg + calls'.copy = 1
             /\ pc' = "load" => "mp3" \in fs'[input.stem].audio
       /\ \A s \in Stems : fs[s].audio \subseteq fs'[s].audio
      ]_vars

\* the second run on clip, this time from a .wav input, found the audio of
\* the first and went on without a conversion
C24_Witness ==
    /\ runs = 2
    /\ pc = "load"
    /\ input.suffix = ".wav"
    /\ "mp3" \in Dir.audio
    /\ calls.ffmpeg = 0 /\ calls.copy = 0

(***************************************************************************)
(* C28  (as stated) Re-run is a pure resume: after a run that completed    *)
(* with a document of at least one segment, the run that follows at once   *)
(* with the same input and options invokes no transcription, alignment or  *)
(* diarization collaborator, writes no checkpoint, leaves the three        *)
(* checkpoint files as they are, completes, and exports the transcript     *)
(* that the first run exported.                                            *)
(***************************************************************************)
\* the current run is the second, after a completed run that ended with a
\* document of at least one segment
ReRuns ==
    /\ runs = 2
    /\ ~Idle
    /\ prev.kind = "returned"
    /\ \E doc \in prev.result : SegmentsOf(doc) # <<>>

PureResume ==
    /\ calls'.transcribe = 0 /\ calls'.align = 0 /\ calls'.diarize = 0
    /\ written' = {}
    /\ Checkpoints(fs') = Checkpoints(fs)
    /\ pc' # "failed"
    /\ pc = "export" =>
         /\ result = prev.result
         /\ fs'[input.stem].transcript = fs[input.stem].transcript

HasShape(stage, doc) ==
    /\ SegmentsOf(doc) # <<>>
    /\ stage \in {"aligned", "diarized"} =>
         \A i \in 1..Len(SegmentsOf(doc)) : SegmentsOf(doc)[i].words
    /\ stage = "diarized" =>
         \A i \in 1..Len(SegmentsOf(doc)) : SegmentsOf(doc)[i].speaker # {}

C29_ExportsMostComplete ==
    [][(pc = "export" /\ RunStep /\ \A doc \in loaded : HasShape(resumed, doc)) =>
         /\ pc' = "done"
         /\ result' = result
         /\ result = MostComplete(fs'[input.stem])
         /\ fs'[input.stem].transcript = {export_transcript(The(MostComplete(fs'[input.stem])))}
      ]_vars

\* a run resumed from a transcribed checkpoint has completed after alignment
\* and diarization: its document is the one of diarized.json
C29_Witness ==
    /\ pc = "done"
    /\ resumed = "transcribed"
    /\ written = {"aligned", "diarized"}
    /\ result = {JsonLoad(The(Dir.diarized))}
    /\ Dir.transcript = {export_transcript(The(result))}
    /\ The(Dir.transcript) # <<>>

(***************************************************************************)
(* C21  Once-only initialisation: over any number of calls of              *)
(* register_safe_globals, first calls made concurrently by runs started in *)
(* parallel included, the safe types are registered exactly once.          *)
(***************************************************************************)
C21_RegisteredOnce == added <= 1

\* sequentially the flag does its work: a call started after a completed one
\* registers nothing
C21_NoEffectAfterCompleted ==
    [][\A t \in Threads : (registered /\ reg_pc[t] = "test") => reg_pc'[t] # "add"]_vars

(***************************************************************************)
(* Vocabulary of the front-end properties                                  *)
(***************************************************************************)
\* the object is written by one of the two threads and read or written by the other
Shared(o) ==
    \E a \in access[o], b \in access[o] : a[1] # b[1] /\ "w" \in {a[2], b[2]}

\* `logs` holds a line that starts with this text
HasLine(start) == \E i \in 1..Len(ui_logs) : ui_logs[i][1] = start

\* the last tuple yielded
Status == Last(yields)

Success ==
    /\ HasLine("\n[SUCCESS] Transcript saved to: ")
    /\ Status.file = {PipelineResult.transcript_txt}
    /\ Status.dir = PipelineResult.output_dir

Failed ==
    /\ HasLine("\n[FAILED] Pipeline error: ") \/ HasLine("\n[FAILED] No result returned.")
    /\ Status.file = {}
    /\ Status.dir = ""

(***************************************************************************)
(* C22  In process_file the event queue is the only mutable state shared   *)
(* between the background thread and the polling generator: no other       *)
(* object is written by one of the two and read or written by the other.   *)
(***************************************************************************)
C22_QueueOnlyShared == \A o \in Objects \ {"log_queue"} : ~Shared(o)

(***************************************************************************)
(* C25  Front-end log delivery: under every interleaving, every message    *)
(* the background thread enqueues, the final [ERROR] line included, is     *)
(* yielded exactly once, in the order of enqueueing, and before the final  *)
(* status; when the loop is left the thread has ended and nothing is left  *)
(* in the queue.                                                           *)
(***************************************************************************)
\* messages taken from the queue so far
Delivered == IF ui_pc = "end" THEN Len(sent) ELSE Len(ui_logs)

C25_LogDelivery ==
    /\ ui_pc # "end" => ui_logs \o log_queue = sent
    /\ ui_pc \in {"final", "end"} => thread = "dead" /\ log_queue = <<>>
    /\ ui_pc = "end" =>
         /\ Len(ui_logs) > Len(sent)
         /\ SubSeq(ui_logs, 1, Len(sent)) = sent
         /\ Len(yields) = Len(sent) + 1
         /\ \A i \in Len(sent) + 1..Len(ui_logs), j \in 1..Len(sent) : ui_logs[i] # sent[j]
    /\ \A k \in 1..Delivered :
         yields[k] = [text |-> Join(SubSeq(sent, 1, k)), file |-> {}, dir |-> ""]

\* a failed run: its log lines and its [ERROR] line have all been shown, then
\* the final status
C25_Witness ==
    /\ ui_pc = "end"
    /\ raised # {}
    /\ Len(sent) = MaxMsgs + 1
    /\ Last(sent) = <<"[ERROR] ">> \o The(raised)
    /\ SubSeq(ui_logs, 1, Len(sent)) = sent

(***************************************************************************)
(* C26  Front-end termination: once the background thread has ended, by    *)
(* return or by exception, the polling loop is left and the generator ends *)
(* after one final status; the loop is never left while the thread is      *)
(* alive, and a poll never waits on an empty queue without timing out.     *)
(***************************************************************************)
C26_FrontEndTerminates ==
    /\ (thread = "dead") ~> (ui_pc = "end")
    /\ [][ui_pc' \in {"final", "end"} => ~is_alive(thread')]_vars
    /\ [](ui_pc = "get" => log_queue # <<>> \/ get_raises_Empty(log_queue))
    /\ [](ui_pc = "end" => Len(yields) = Len(ui_logs) - (IF Success THEN 1 ELSE 0)
                           /\ (Success \/ Failed))

\* the generator has ended after a run that raised before logging anything
C26_Witness ==
    /\ ui_pc = "end"
    /\ thread = "dead"
    /\ raised # {}
    /\ emitted = 0
    /\ Failed

(***************************************************************************)
(* C27  Front-end outcome consistency: process_file reads result_holder    *)
(* only after the background thread has ended; it reports SUCCESS with the *)
(* transcript path and the output directory iff run_pipeline returned, and *)
(* FAILED with no transcript path iff run_pipeline raised, never both, and *)
(* never `No result returned` for a run that returned.                     *)
(***************************************************************************)
C27_OutcomeConsistency ==
    /\ <<"generator", "r">> \in access["result_holder"] => thread = "dead"
    /\ ui_pc = "end" =>
         /\ Success <=> raised = {}
         /\ Failed <=> raised # {}
         /\ ~(Success /\ Failed)
         /\ raised = {} => ~HasLine("\n[FAILED] No result returned.")
         /\ HasLine("\n[FAILED] Pipeline error: ") =>
              Last(ui_logs) = <<"\n[FAILED] Pipeline error: ">> \o The(raised)

\* a run that returned is reported as SUCCESS with its transcript and directory
C27_Witness ==
    /\ ui_pc = "end"
    /\ raised = {}
    /\ result_holder.result = {PipelineResult}
    /\ Success
    /\ emitted = MaxMsgs

====
